---- MODULE Spec2Model ----
(***************************************************************************)
(* A model of gcca.py: one GCCA object (its fitted fields and its          *)
(* projected results), the parameter file save_params writes and           *)
(* load_params reads, and the eigen solver of fit.                         *)
(*                                                                         *)
(* Arrays are modelled by their shape and by where they come from (which   *)
(* data sets, which rows of the eigenvector matrix, which projection), not *)
(* by their numbers.  What numpy, scipy and h5py compute (matrix ranks,    *)
(* eigenvalues, the order argsort gives to ties) is an input of the        *)
(* operation that asks for it.                                             *)
(***************************************************************************)
EXTENDS Integers, Sequences, FiniteSets

VARIABLES
    model,   \* the GCCA object: the attributes __init__ sets, and eig_vals
    file,    \* the parameter file on disk
    last,    \* the last call: its name, its arguments, how it ended
    calls,   \* how many calls the program has made
    eig      \* the eigen solver on its own: the solver's answer and the result

vars == <<model, file, last, calls, eig>>

\* Most calls the program makes on the object.
MaxSteps == 4

\* Most data sets handed to one call.
MaxNum == 2
\* Largest generalized eigenproblem SpecEig solves.
MaxEigSize == 3

\* The constructor's defaults: n_components, and reg_param in thousandths.
NComponents == {2}
RegParams == {100}

Min(a, b) == IF a <= b THEN a ELSE b

Reverse(s) == [k \in 1..Len(s) |-> s[Len(s) + 1 - k]]

RECURSIVE SumSeq(_)
SumSeq(s) == IF s = <<>> THEN 0 ELSE s[1] + SumSeq(Tail(s))

(***************************************************************************)
(* Values.                                                                 *)
(***************************************************************************)
\* A data set: a 2-D array of `rows` samples and `cols` features.
Arr(s, f) == [kind |-> "ndarray", rows |-> s, cols |-> f]

\* The data sets a caller has: two sample counts (so that they can differ
\* within a call) and two feature counts (so that the blocks differ in
\* shape, and a single feature is there).
DataSets == {Arr(2, 1), Arr(2, 2), Arr(3, 2)}

\* The argument fit_transform hands on: the tuple of its data sets.
Tup(xs) == [kind |-> "tuple", items |-> xs]

\* What a caller passes to fit, transform and fit_transform.
Inputs == UNION {[1..n -> DataSets] : n \in 0..MaxNum}

None == [kind |-> "None"]

\* np.array([])
EmptyArr == [kind |-> "ndarray", len |-> 0]

\* An h5py dataset object of a file that has been closed.
ClosedDataset(i, j) == [kind |-> "Dataset", closed |-> TRUE, name |-> <<i, j>>]

\* A float that may be NaN.
Num(v) == [nan |-> FALSE, v |-> v]
NaN == [nan |-> TRUE, v |-> 0]

(***************************************************************************)
(* __init__                                                                *)
(***************************************************************************)
GCCA(n_components, reg_param) ==
    [n_components |-> n_components,
     reg_param    |-> reg_param,
     data_num     |-> 0,
     cov_mat      |-> << <<>> >>,
     h_list       |-> <<>>,
     eigvals      |-> <<>>,
     z_list       |-> <<>>,
     \* not an attribute until load_params sets it
     eig_vals     |-> [set |-> FALSE, value |-> <<>>]]

(***************************************************************************)
(* normalize: the column means are subtracted, the shape stays.            *)
(***************************************************************************)
normalize(mat) == [kind |-> "ndarray", rows |-> mat.rows, cols |-> mat.cols]

\* x.shape exists (the logging loops of fit and transform read it).
HasShape(x) == x.kind = "ndarray"

\* [0] + [sum([len(x.T) for x in x_list][:i + 1]) for i in xrange(data_num)]
d_list_of(x_list) ==
    [k \in 1..(Len(x_list) + 1) |->
        SumSeq([i \in 1..(k - 1) |-> x_list[i].cols])]

(***************************************************************************)
(* calc_cov_mat: one covariance over the stacked features, cut into a      *)
(* data_num x data_num grid of blocks by the cumulative feature offsets.   *)
(* A block is its shape, its place in the stacked covariance, the data it  *)
(* was computed from and the regularization added to it.                   *)
(***************************************************************************)
CovBlock(x_list, d_list, i, j) ==
    [kind |-> "ndarray",
     rows |-> d_list[i + 1] - d_list[i],
     cols |-> d_list[j + 1] - d_list[j],
     r0   |-> d_list[i],
     c0   |-> d_list[j],
     src  |-> x_list,
     reg  |-> <<>>]

\* "ok", or the error np.vstack, np.cov and the slicing raise.
calc_cov_mat_error(x_list) ==
    IF Len(x_list) = 0 THEN "ValueError"
    ELSE IF \E i, j \in 1..Len(x_list) : x_list[i].rows # x_list[j].rows
         THEN "ValueError"
    ELSE IF SumSeq([i \in 1..Len(x_list) |-> x_list[i].cols]) = 1
         THEN "IndexError"
    ELSE "ok"

calc_cov_mat(x_list) ==
    LET data_num == Len(x_list)
        d_list == d_list_of(x_list)
    IN [i \in 1..data_num |->
           [j \in 1..data_num |-> CovBlock(x_list, d_list, i, j)]]

\* cov_mat[i][i] += reg_param * average(diag) * eye
add_regularization_term(cov_mat, reg_param) ==
    [i \in 1..Len(cov_mat) |->
        [j \in 1..Len(cov_mat[i]) |->
            IF i = j THEN [cov_mat[i][j] EXCEPT !.reg = <<reg_param>>]
            ELSE cov_mat[i][j]]]

\* left = A: the off-diagonal blocks; right = B: the diagonal blocks.
LeftMatrix(cov_mat) ==
    [kind |-> "ndarray",
     rows |-> SumSeq([i \in 1..Len(cov_mat) |-> cov_mat[i][1].rows]),
     cols |-> SumSeq([j \in 1..Len(cov_mat) |-> cov_mat[1][j].cols]),
     zero |-> Len(cov_mat) = 1]

RightMatrix(cov_mat) ==
    [kind |-> "ndarray",
     rows |-> SumSeq([i \in 1..Len(cov_mat) |-> cov_mat[i][1].rows]),
     cols |-> SumSeq([j \in 1..Len(cov_mat) |-> cov_mat[1][j].cols]),
     zero |-> FALSE]

(***************************************************************************)
(* The eigen solver.  numpy and scipy answer with                          *)
(*   rank_left, rank_right  np.linalg.matrix_rank of left and right,       *)
(*   w        the generalized eigenvalues, complex, in the order eig gives *)
(*            them; column k of the eigenvector matrix belongs to w[k],    *)
(*   argsort  np.argsort(w): indices that put w in ascending order,        *)
(*   raises   "no", or the error they raise on a matrix that holds NaN or  *)
(*            inf: LinAlgError from matrix_rank, ValueError from eig.       *)
(***************************************************************************)
\* numpy's order of complex numbers: by real part, then imaginary part,
\* with NaN after every number.
ComplexLeq(a, b) ==
    IF b.re.nan THEN TRUE
    ELSE IF a.re.nan THEN FALSE
    ELSE \/ a.re.v < b.re.v
         \/ a.re.v = b.re.v /\ a.im.v <= b.im.v

PermsOf(n) ==
    {p \in [1..n -> 1..n] : \A i, j \in 1..n : i # j => p[i] # p[j]}

ArgSorts(w) ==
    {p \in PermsOf(Len(w)) :
        \A k \in 1..(Len(w) - 1) : ComplexLeq(w[p[k]], w[p[k + 1]])}

solve_eigprob(left, right, lib) ==
    LET eig_dim == Min(lib.rank_left, lib.rank_right)
        sort_indices == Reverse(lib.argsort)
        kept == SubSeq(sort_indices, 1, Min(eig_dim, Len(sort_indices)))
    IN  IF lib.raises # "no"
        THEN [result   |-> lib.raises,
              eig_vals |-> <<>>,
              eig_vecs |-> [kind  |-> "ndarray",
                            rows  |-> left.rows,
                            cols  |-> 0,
                            vcols |-> <<>>]]
        ELSE [result   |-> "ok",
              eig_vals |-> [k \in 1..Len(kept) |-> lib.w[kept[k]].re],
              eig_vecs |-> [kind  |-> "ndarray",
                            rows  |-> left.rows,
                            cols  |-> Len(kept),
                            vcols |-> kept]]

\* eigvecs[start:end]: the rows of data set i, with the data and the
\* regularization the eigenvectors were computed from.
ProjectionMatrix(eigvecs, d_list, i, x_list, reg_param) ==
    [kind  |-> "ndarray",
     rows  |-> Min(d_list[i + 1], eigvecs.rows) - Min(d_list[i], eigvecs.rows),
     cols  |-> eigvecs.cols,
     r0    |-> d_list[i],
     vcols |-> eigvecs.vcols,
     src   |-> x_list,
     reg   |-> reg_param]

(***************************************************************************)
(* fit.             The result is the object after the call and how the call *)
(* ended; every error is raised before the first assignment to self.       *)
(***************************************************************************)
fit(self, x_list, lib) ==
    LET data_num == Len(x_list)
        d_list == d_list_of(x_list)
        x_norm_list == [i \in 1..data_num |-> normalize(x_list[i])]
        cov_mat == add_regularization_term(calc_cov_mat(x_norm_list),
                                           self.reg_param)
        solved == solve_eigprob(LeftMatrix(cov_mat), RightMatrix(cov_mat), lib)
    IN  IF \E i \in 1..data_num : ~HasShape(x_list[i])
        THEN [self |-> self, result |-> "AttributeError"]
        ELSE IF calc_cov_mat_error(x_list) # "ok"
        THEN [self |-> self, result |-> calc_cov_mat_error(x_list)]
        ELSE IF solved.result # "ok"
        THEN [self |-> self, result |-> solved.result]
        ELSE [self |-> [self EXCEPT
                          !.data_num = data_num,
                          !.cov_mat  = cov_mat,
                          !.h_list   = [i \in 1..data_num |->
                                          ProjectionMatrix(solved.eig_vecs,
                                              d_list, i, x_norm_list,
                                              self.reg_param)],
                          !.eigvals  = solved.eig_vals],
              result |-> "ok"]

(***************************************************************************)
(* transform                                                                   *)
(***************************************************************************)
\* np.dot(x, h_vec)
dot_error(x, h_vec) ==
    IF h_vec.kind # "ndarray" THEN "TypeError"
    ELSE IF x.cols # h_vec.rows THEN "ValueError"
    ELSE "ok"

dot(x, h_vec) ==
    [kind |-> "ndarray", rows |-> x.rows, cols |-> h_vec.cols,
     x |-> x, h |-> h_vec]

\* transform without the comparison of data_num with the fitted one.
transform_unchecked(self, x_list) ==
    LET data_num == Len(x_list)
        x_norm_list == [i \in 1..data_num |-> normalize(x_list[i])]
        pairs == 1..Min(data_num, Len(self.h_list))
        bad == {i \in pairs : dot_error(x_norm_list[i], self.h_list[i]) # "ok"}
        first == CHOOSE i \in bad : \A k \in bad : i <= k
    IN  IF \E i \in 1..data_num : ~HasShape(x_list[i])
        THEN [self |-> self, result |-> "AttributeError"]
        ELSE IF bad # {}
        THEN [self |-> self,
              result |-> dot_error(x_norm_list[first], self.h_list[first])]
        ELSE [self |-> [self EXCEPT !.z_list =
                           [i \in pairs |-> dot(x_norm_list[i], self.h_list[i])]],
              result |-> "ok"]

transform(self, x_list) ==
    LET data_num == Len(x_list)
        x_norm_list == [i \in 1..data_num |-> normalize(x_list[i])]
        \* zip stops at the shorter list
        pairs == 1..Min(data_num, Len(self.h_list))
        bad == {i \in pairs : dot_error(x_norm_list[i], self.h_list[i]) # "ok"}
        first == CHOOSE i \in bad : \A k \in bad : i <= k
    IN  IF \E i \in 1..data_num : ~HasShape(x_list[i])
        THEN [self |-> self, result |-> "AttributeError"]
        ELSE IF self.data_num # data_num
        THEN [self |-> self, result |-> "DataCountMismatch"]
        ELSE IF bad # {}
        THEN [self |-> self,
              result |-> dot_error(x_norm_list[first], self.h_list[first])]
        ELSE [self |-> [self EXCEPT !.z_list =
                           [i \in pairs |-> dot(x_norm_list[i], self.h_list[i])]],
              result |-> "ok"]

(***************************************************************************)
(* fit_transform:          self.fit(x_list); self.transform(x_list).  The  *)
(* tuple is passed on as one argument.                                     *)
(***************************************************************************)
\* fit_transform that unpacks the tuple: self.fit(*x_list), and so on.
fit_transform_unpacked(self, x_list, lib) ==
    LET fitted == fit(self, x_list, lib)
    IN  IF fitted.result # "ok" THEN fitted
        ELSE transform(fitted.self, x_list)

fit_transform(self, x_list, lib) ==
    LET fitted == fit(self, <<Tup(x_list)>>, lib)
    IN  IF fitted.result # "ok" THEN fitted
        ELSE transform(fitted.self, <<Tup(x_list)>>)

(***************************************************************************)
(* The parameter file.  A group is a function from its keys to what each   *)
(* holds: the key str(i) + "_" + str(j) is <<i, j>>, the key str(i) is i,  *)
(* counted from 0 as in the code.  saved_from and saved are history, not   *)
(* part of the file: the object as it was when save_params wrote the file, *)
(* and how that call ended.                                                *)
(***************************************************************************)
NoFile == [exists |-> FALSE]

Absent == [present |-> FALSE, items |-> <<>>]
Group(items) == [present |-> TRUE, items |-> items]

\* Row-major order of the cells of a grid.
CellLt(c, d) == c[1] < d[1] \/ (c[1] = d[1] /\ c[2] < d[2])

First(cells) == CHOOSE c \in cells : \A d \in cells : c = d \/ CellLt(c, d)

\* create_dataset(name, data=x) reads x: a closed dataset or None raises.
Writable(x) == x.kind = "ndarray"

(***************************************************************************)
(* save_params: the file is truncated, then written key by key; a          *)
(* create_dataset that raises leaves the keys written so far.              *)
(***************************************************************************)
save_params(self) ==
    LET cells == UNION {{<<i - 1, j - 1>> : j \in 1..Len(self.cov_mat[i])} :
                           i \in 1..Len(self.cov_mat)}
        cell(c) == self.cov_mat[c[1] + 1][c[2] + 1]
        bad_cells == {c \in cells : ~Writable(cell(c))}
        cov_written == IF bad_cells = {} THEN cells
                       ELSE {c \in cells : CellLt(c, First(bad_cells))}
        h_keys == {i - 1 : i \in 1..Len(self.h_list)}
        bad_h == {i \in h_keys : ~Writable(self.h_list[i + 1])}
        h_written == {i \in h_keys : \A b \in bad_h : i < b}
        z_keys == {i - 1 : i \in 1..Len(self.z_list)}
        bad_z == {i \in z_keys : ~Writable(self.z_list[i + 1])}
        z_written == {i \in z_keys : \A b \in bad_z : i < b}
        scalars == [exists       |-> TRUE,
                    n_components |-> self.n_components,
                    reg_param    |-> self.reg_param,
                    data_num     |-> self.data_num,
                    cov_mat      |-> Group([c \in cov_written |-> cell(c)]),
                    h_list       |-> Absent,
                    eig_vals     |-> [present |-> FALSE, value |-> <<>>],
                    z_list       |-> Absent,
                    saved_from   |-> self,
                    saved        |-> "ValueError"]
        with_h == [scalars EXCEPT
                     !.h_list = Group([i \in h_written |-> self.h_list[i + 1]])]
        with_eig == [with_h EXCEPT
                     !.eig_vals = [present |-> TRUE, value |-> self.eigvals]]
        with_z == [with_eig EXCEPT
                     !.z_list = Group([i \in z_written |-> self.z_list[i + 1]])]
        ended(f, result) == [file |-> [f EXCEPT !.saved = result],
                             result |-> result]
    IN  IF bad_cells # {} THEN ended(scalars, "ValueError")
        ELSE IF bad_h # {} THEN ended(with_h, "TypeError")
        ELSE IF Len(self.z_list) = 0 THEN ended(with_eig, "ok")
        ELSE IF bad_z # {} THEN ended(with_z, "TypeError")
        ELSE ended(with_z, "ok")

(***************************************************************************)
(* load_params: the attributes are assigned one by one, so a KeyError      *)
(* leaves the ones assigned before it.  cov_mat gets the dataset objects   *)
(* themselves (no .value), which are closed with the file; eig_vals is     *)
(* assigned to self.eig_vals.                                              *)
(***************************************************************************)
\* load_params that reads every projection matrix from the key "0".
load_params_first_key(self, f) ==
    LET D == f.data_num
        s1 == [self EXCEPT !.n_components = f.n_components,
                           !.reg_param = f.reg_param,
                           !.data_num = D]
        cells == (0..D - 1) \X (0..D - 1)
        no_cell == {c \in cells : c \notin DOMAIN f.cov_mat.items}
        cov_read(c) == no_cell = {} \/ CellLt(c, First(no_cell))
        s2 == [s1 EXCEPT !.cov_mat =
                 [i \in 1..D |-> [j \in 1..D |->
                     IF cov_read(<<i - 1, j - 1>>)
                     THEN ClosedDataset(i - 1, j - 1) ELSE EmptyArr]]]
        no_h == {i \in 0..D - 1 : i \notin DOMAIN f.h_list.items}
        s3 == [s2 EXCEPT !.h_list =
                 [i \in 1..D |->
                     IF \A b \in no_h : i - 1 < b
                     THEN f.h_list.items[0] ELSE None]]
        s4 == [s3 EXCEPT !.eig_vals = [set |-> TRUE, value |-> f.eig_vals.value]]
        no_z == {i \in 0..D - 1 : i \notin DOMAIN f.z_list.items}
        s5 == [s4 EXCEPT !.z_list =
                 [i \in 1..D |->
                     IF \A b \in no_z : i - 1 < b
                     THEN f.z_list.items[i - 1] ELSE None]]
    IN  IF ~f.exists THEN [self |-> self, result |-> "IOError"]
        ELSE IF no_cell # {} THEN [self |-> s2, result |-> "KeyError"]
        ELSE IF no_h # {} THEN [self |-> s3, result |-> "KeyError"]
        ELSE IF ~f.eig_vals.present THEN [self |-> s3, result |-> "KeyError"]
        ELSE IF ~f.z_list.present THEN [self |-> s4, result |-> "ok"]
        ELSE IF no_z # {} THEN [self |-> s5, result |-> "KeyError"]
        ELSE [self |-> s5, result |-> "ok"]

load_params(self, f) ==
    LET D == f.data_num
        s1 == [self EXCEPT !.n_components = f.n_components,
                           !.reg_param = f.reg_param,
                           !.data_num = D]
        cells == (0..D - 1) \X (0..D - 1)
        no_cell == {c \in cells : c \notin DOMAIN f.cov_mat.items}
        cov_read(c) == no_cell = {} \/ CellLt(c, First(no_cell))
        s2 == [s1 EXCEPT !.cov_mat =
                 [i \in 1..D |-> [j \in 1..D |->
                     IF cov_read(<<i - 1, j - 1>>)
                     THEN ClosedDataset(i - 1, j - 1) ELSE EmptyArr]]]
        no_h == {i \in 0..D - 1 : i \notin DOMAIN f.h_list.items}
        s3 == [s2 EXCEPT !.h_list =
                 [i \in 1..D |->
                     IF \A b \in no_h : i - 1 < b
                     THEN f.h_list.items[i - 1] ELSE None]]
        s4 == [s3 EXCEPT !.eig_vals = [set |-> TRUE, value |-> f.eig_vals.value]]
        no_z == {i \in 0..D - 1 : i \notin DOMAIN f.z_list.items}
        s5 == [s4 EXCEPT !.z_list =
                 [i \in 1..D |->
                     IF \A b \in no_z : i - 1 < b
                     THEN f.z_list.items[i - 1] ELSE None]]
    IN  IF ~f.exists THEN [self |-> self, result |-> "IOError"]
        ELSE IF no_cell # {} THEN [self |-> s2, result |-> "KeyError"]
        ELSE IF no_h # {} THEN [self |-> s3, result |-> "KeyError"]
        ELSE IF ~f.eig_vals.present THEN [self |-> s3, result |-> "KeyError"]
        ELSE IF ~f.z_list.present THEN [self |-> s4, result |-> "ok"]
        ELSE IF no_z # {} THEN [self |-> s5, result |-> "KeyError"]
        ELSE [self |-> s5, result |-> "ok"]

(***************************************************************************)
(* What the libraries may answer.                                          *)
(***************************************************************************)
Complex(re, im) == [re |-> Num(re), im |-> Num(im)]
ComplexNaN == [re |-> NaN, im |-> NaN]

\* Eigenvalues the solver may give back.  NaN is 0/0: a direction that both
\* matrices send to zero (a constant feature with nothing added to its
\* variance).
EigValues == {Complex(re, im) : re \in -1..1, im \in 0..1} \cup {ComplexNaN}

\* The errors of the libraries on a matrix that holds NaN or inf (the
\* data did): matrix_rank raises LinAlgError when the SVD does not
\* converge; where it returns, eig refuses the matrix with ValueError.
SolverErrors == {"LinAlgError", "ValueError"}

\* An answer that is an error: nothing of the rest is computed or read.
Raises(e, n) ==
    [raises     |-> e,
     rank_left  |-> 0,
     rank_right |-> 0,
     w          |-> [k \in 1..n |-> ComplexNaN],
     argsort    |-> [k \in 1..n |-> k]]

\* Answers for an n x n problem whose eigenvalue lists are the ones in W.
\* The rank of an all-zero matrix is 0; with a NaN eigenvalue neither matrix
\* has full rank.
SolverAnswers(n, left_zero, W) ==
    {a \in [raises : {"no"}, rank_left : 0..n, rank_right : 0..n, w : W,
            argsort : PermsOf(n)] :
        /\ a.argsort \in ArgSorts(a.w)
        /\ left_zero => a.rank_left = 0
        /\ (\E k \in 1..n : a.w[k].re.nan) => a.rank_left < n /\ a.rank_right < n}
      \cup {Raises(e, n) : e \in SolverErrors}

\* What the numbers of a data set decide: the rank of the centred data
\* set, 0 for a data set whose features are all constant, and at most its
\* feature count and its sample count less one.  matrix_rank counts the
\* singular values above a tolerance relative to the largest one of the
\* whole matrix, so it may answer less than the rank the data give.
DataRanks(x_list) ==
    {r \in [1..Len(x_list) ->
                0..SumSeq([i \in 1..Len(x_list) |-> x_list[i].cols])] :
        \A i \in 1..Len(x_list) :
            r[i] <= Min(x_list[i].cols, x_list[i].rows - 1)}

\* The rank of block (i, i) of right: the covariance of data set i, of rank
\* r, plus reg_param * average(diag) * eye, which fills the rank up unless
\* reg_param or the average variance is 0.
BlockRank(x, r, reg_param) == IF reg_param > 0 /\ r > 0 THEN x.cols ELSE r

\* An upper bound of the rank of left: block row i is the covariance of
\* the features of data set i with those of the others.
RankBound(x_list, r) ==
    LET n == SumSeq([i \in 1..Len(x_list) |-> x_list[i].cols])
        all == SumSeq(r)
    IN  Min(n, SumSeq([i \in 1..Len(x_list) |-> Min(r[i], all - r[i])]))

\* The ranks matrix_rank gives for left: the bound when the data sets are
\* correlated as much as their ranks allow; less when some are not, or when
\* the data sets differ in scale.  left is symmetric with a zero diagonal,
\* so its singular values are not all below the tolerance but one, and with
\* two data sets they come in pairs (those of the off-diagonal block).
LeftRanks(x_list, r) ==
    {k \in 0..RankBound(x_list, r) :
        /\ k # 1
        /\ Len(x_list) = 2 => k % 2 = 0}

\* The ranks matrix_rank gives for right: 0 for the zero matrix, else from
\* 1 (one block far larger than the others) to the sum of the block ranks.
RightRanks(x_list, r, reg_param) ==
    LET full == SumSeq([i \in 1..Len(x_list) |->
                    BlockRank(x_list[i], r[i], reg_param)])
    IN  IF full = 0 THEN {0} ELSE 1..full

\* The eigenvalues eig gives for data of these ranks: NaN (0/0) for the
\* directions of block i that right sends to zero (left does too), the
\* last cols - BlockRank features of the block, and k for feature k
\* otherwise (so that sorting reverses them).
FitEigValues(x_list, r, reg_param) ==
    LET d_list == d_list_of(x_list)
        n == d_list[Len(x_list) + 1]
        block(k) == CHOOSE i \in 1..Len(x_list) :
                        d_list[i] < k /\ k <= d_list[i + 1]
    IN  [k \in 1..n |->
            IF k - d_list[block(k)]
                 > BlockRank(x_list[block(k)], r[block(k)], reg_param)
            THEN ComplexNaN ELSE Complex(k, 0)]

\* np.argsort of those eigenvalues: the numbers ascend with the feature,
\* and the NaN come after them, tied.  solve_eigprob reads the last eig_dim
\* entries only, so the orders of the tied NaN are told apart there; the
\* NaN before them are taken in the order of their features.
FitArgSorts(w, eig_dim) ==
    LET Ascending(S) == [k \in 1..Cardinality(S) |->
                           CHOOSE x \in S :
                               Cardinality({y \in S : y < x}) = k - 1]
        nums == {k \in 1..Len(w) : ~w[k].re.nan}
        nans == {k \in 1..Len(w) : w[k].re.nan}
        t == Min(eig_dim, Cardinality(nans))
        tails == {f \in [1..t -> nans] :
                    \A i, j \in 1..t : i # j => f[i] # f[j]}
    IN  {Ascending(nums)
           \o Ascending(nans \ {f[i] : i \in 1..t})
           \o f : f \in tails}

\* What the libraries may answer to fit(x_list): the shapes are known, the
\* numbers are not, so every rank the data sets can have is taken, and the
\* errors raised for data that hold NaN or inf.
FitAnswers(x_list, reg_param) ==
    IF \/ \E i \in 1..Len(x_list) : ~HasShape(x_list[i])
       \/ calc_cov_mat_error(x_list) # "ok"
    THEN {[raises |-> "no", rank_left |-> 0, rank_right |-> 0,
           w |-> <<>>, argsort |-> <<>>]}
    ELSE UNION {
           LET w == FitEigValues(x_list, r, reg_param)
           IN  UNION {
                 {[raises     |-> "no",
                   rank_left  |-> k[1],
                   rank_right |-> k[2],
                   w          |-> w,
                   argsort    |-> p] :
                     p \in FitArgSorts(w, Min(k[1], k[2]))} :
                 k \in LeftRanks(x_list, r)
                          \X RightRanks(x_list, r, reg_param)} :
           r \in DataRanks(x_list)}
         \cup {Raises(e, SumSeq([i \in 1..Len(x_list) |-> x_list[i].cols])) :
                  e \in SolverErrors}

(***************************************************************************)
(* The calls a program makes on one object and one file.                   *)
(***************************************************************************)
Call(op, x_list, result) == [op |-> op, n |-> Len(x_list), result |-> result]

Idle == [phase |-> "idle"]

Init ==
    /\ \E nc \in NComponents, rp \in RegParams : model = GCCA(nc, rp)
    /\ file = NoFile
    /\ last = Call("__init__", <<>>, "ok")
    /\ calls = 0
    /\ eig = Idle

Called ==
    /\ calls < MaxSteps
    /\ calls' = calls + 1
    /\ eig' = eig

Construct ==
    /\ Called
    /\ \E nc \in NComponents, rp \in RegParams : model' = GCCA(nc, rp)
    /\ last' = Call("__init__", <<>>, "ok")
    /\ file' = file

Fit ==
    /\ Called
    /\ \E x_list \in Inputs : \E lib \in FitAnswers(x_list, model.reg_param) :
        LET r == fit(model, x_list, lib)
        IN  /\ model' = r.self
            /\ last' = Call("fit", x_list, r.result)
            /\ file' = file

Transform ==
    /\ Called
    /\ \E x_list \in Inputs :
        LET r == transform(model, x_list)
        IN  /\ model' = r.self
            /\ last' = Call("transform", x_list, r.result)
            /\ file' = file

FitTransform ==
    /\ Called
    /\ \E x_list \in Inputs : \E lib \in FitAnswers(<<Tup(x_list)>>, model.reg_param) :
        LET r == fit_transform(model, x_list, lib)
        IN  /\ model' = r.self
            /\ last' = Call("fit_transform", x_list, r.result)
            /\ file' = file

SaveParams ==
    /\ Called
    /\ LET r == save_params(model)
       IN  /\ file' = r.file
           /\ last' = Call("save_params", <<>>, r.result)
           /\ model' = model

LoadParams ==
    /\ Called
    /\ LET r == load_params(model, file)
       IN  /\ model' = r.self
           /\ last' = Call("load_params", <<>>, r.result)
           /\ file' = file

Next ==
    \/ Construct
    \/ Fit
    \/ Transform
    \/ FitTransform
    \/ SaveParams
    \/ LoadParams

Spec == Init /\ [][Next]_vars

(***************************************************************************)
(* The eigen solver on its own: every answer of the libraries for problems *)
(* of up to MaxEigSize features, then solve_eigprob on it.                 *)
(***************************************************************************)
EigLeft(n) == [kind |-> "ndarray", rows |-> n, cols |-> n, zero |-> FALSE]

EigInit ==
    /\ \E nc \in NComponents, rp \in RegParams : model = GCCA(nc, rp)
    /\ file = NoFile
    /\ last = Call("__init__", <<>>, "ok")
    /\ calls = 0
    /\ \E n \in 1..MaxEigSize :
         \E lib \in SolverAnswers(n, FALSE, [1..n -> EigValues]) :
            eig = [phase |-> "asked", lib |-> lib]

SolveEig ==
    /\ eig.phase = "asked"
    /\ eig' = [phase  |-> "solved",
               lib    |-> eig.lib,
               solved |-> solve_eigprob(EigLeft(Len(eig.lib.w)),
                                        EigLeft(Len(eig.lib.w)), eig.lib)]
    /\ UNCHANGED <<model, file, last, calls>>

EigNext == SolveEig

SpecEig == EigInit /\ [][EigNext]_vars

(***************************************************************************)
(* Properties.                                                             *)
(***************************************************************************)
\* The step just taken is a call (not a stuttering step).
IsCall(op) == calls' = calls + 1 /\ last'.op = op

\* The step is a call of fit, transform or fit_transform on x_list.
FitStep(x_list) ==
    /\ IsCall("fit")
    /\ \E lib \in FitAnswers(x_list, model.reg_param) :
          /\ model' = fit(model, x_list, lib).self
          /\ last' = Call("fit", x_list, fit(model, x_list, lib).result)

TransformStep(x_list) ==
    /\ IsCall("transform")
    /\ model' = transform(model, x_list).self
    /\ last' = Call("transform", x_list, transform(model, x_list).result)

FitTransformStep(x_list) ==
    /\ IsCall("fit_transform")
    /\ \E lib \in FitAnswers(<<Tup(x_list)>>, model.reg_param) :
          /\ model' = fit_transform(model, x_list, lib).self
          /\ last' = Call("fit_transform", x_list,
                          fit_transform(model, x_list, lib).result)

\* fit has given the object as many projection matrices as data sets.
Fitted(m) ==
    /\ m.data_num >= 1
    /\ Len(m.h_list) = m.data_num
    /\ \A i \in 1..Len(m.h_list) : m.h_list[i].kind = "ndarray"

SamplesDiffer(x_list) ==
    \E i, j \in 1..Len(x_list) : x_list[i].rows # x_list[j].rows

\* The step loads, into an object on which nothing has been called since
\* its construction, a file that save_params wrote in full from a fitted
\* object.
RoundTripStep ==
    /\ last.op = "__init__"
    /\ IsCall("load_params")
    /\ file.exists
    /\ file.saved = "ok"
    /\ Fitted(file.saved_from)

(* C1: transform with a number of data sets other than the object's
   data_num ends with the data-count error and leaves h_list as it was. *)
C1_TransformCountMismatch ==
    [][(IsCall("transform") /\ last'.n # model.data_num)
         => /\ last'.result = "DataCountMismatch"
            /\ model'.h_list = model.h_list]_vars

C1_Witness ==
    /\ last.op = "transform"
    /\ last.result = "DataCountMismatch"
    /\ last.n # model.data_num
    /\ Fitted(model)

(* C2: fit_transform of N >= 1 data sets that fit accepts completes, and
   leaves the object as fit followed by transform on the same data sets
   does: data_num = N, N projection matrices, N projected data sets. *)
C2_FitTransformIsFitThenTransform ==
    [][\A x_list \in Inputs :
          (/\ Len(x_list) >= 1
           /\ calc_cov_mat_error(x_list) = "ok"
           /\ FitTransformStep(x_list))
          => /\ last'.result = "ok"
             /\ \E lib \in FitAnswers(x_list, model.reg_param) :
                   model' = transform(fit(model, x_list, lib).self, x_list).self
             /\ model'.data_num = Len(x_list)
             /\ Len(model'.h_list) = Len(x_list)
             /\ Len(model'.z_list) = Len(x_list)]_vars

(* C3: after load_params has read a file without a z_list group, the load
   has not raised and z_list is empty, whatever the object held before. *)
C3_LoadWithoutZListEmptiesZList ==
    [][(/\ IsCall("load_params")
        /\ file.exists
        /\ file.saved = "ok"
        /\ ~file.z_list.present)
         => /\ last'.result = "ok"
            /\ model'.z_list = <<>>]_vars

(* C4: a fitted object M is saved and the file is loaded into a new
   object M'; then for every input X, M'.transform(X) ends as
   M.transform(X) does, and when that is without error it returns the same
   projected data sets, one for each data set of X in the same order; on
   the data sets M was fitted on it is without error. *)
C4_RoundTripPreservesTransform ==
    [][RoundTripStep
         => /\ \A x_list \in Inputs :
                  LET loaded == transform(model', x_list)
                      saved == transform(file.saved_from, x_list)
                  IN  /\ loaded.result = saved.result
                      /\ loaded.result = "ok"
                           => /\ loaded.self.z_list = saved.self.z_list
                              /\ Len(loaded.self.z_list) = Len(x_list)
            \* on the data sets M was fitted on, transform succeeds
            /\ transform(model', file.saved_from.h_list[1].src).result = "ok"]_vars

C4_Witness ==
    /\ last.op = "load_params"
    /\ last.result = "ok"
    /\ file.exists
    /\ file.saved = "ok"
    /\ Fitted(file.saved_from)
    /\ model.z_list = <<>>
    /\ model.eigvals = <<>>
    /\ model.data_num = 2
    /\ model.h_list = file.saved_from.h_list
    /\ model.h_list[1] # model.h_list[2]
    /\ \E x_list \in Inputs :
          /\ transform(model, x_list).result = "ok"
          /\ transform(model, x_list).self.z_list # <<>>

(* C5: after a fitted object M is saved and the file is loaded into a new
   object, n_components, reg_param, data_num, the covariance blocks, the
   projection matrices and eigvals of that object are those of M. *)
C5_LoadRestoresFittedModel ==
    [][RoundTripStep
         => /\ last'.result = "ok"
            /\ model'.n_components = file.saved_from.n_components
            /\ model'.reg_param = file.saved_from.reg_param
            /\ model'.data_num = file.saved_from.data_num
            /\ model'.cov_mat = file.saved_from.cov_mat
            /\ model'.h_list = file.saved_from.h_list
            /\ model'.eigvals = file.saved_from.eigvals]_vars

(* C6: fit and transform called with data sets whose sample counts differ
   end with an error and leave the object as it was. *)
C6_SampleCountsChecked ==
    [][\A x_list \in Inputs :
          (SamplesDiffer(x_list) /\ (FitStep(x_list) \/ TransformStep(x_list)))
          => /\ last'.result # "ok"
             /\ model' = model]_vars

(* C7: the eigenvalues solve_eigprob returns are in non-increasing order,
   there are eig_dim = min(rank(A), rank(B)) of them, at most the number
   of features; they are the first eig_dim of all the eigenvalues sorted
   in descending order, and column k of the eigenvectors is the
   eigenvector of the k-th of them. *)
NumGeq(a, b) == ~a.nan /\ ~b.nan /\ a.v >= b.v

C7_EigenvaluesDescending ==
    (eig.phase = "solved" /\ eig.solved.result = "ok") =>
        LET vals == eig.solved.eig_vals
            vecs == eig.solved.eig_vecs
            w == eig.lib.w
            eig_dim == Min(eig.lib.rank_left, eig.lib.rank_right)
        IN  /\ \A k \in 1..(Len(vals) - 1) : NumGeq(vals[k], vals[k + 1])
            /\ Len(vals) = eig_dim
            /\ Len(vals) <= Len(w)
            /\ vecs.cols = Len(vals)
            /\ \A k \in 1..Len(vals) : vals[k] = w[vecs.vcols[k]].re
            /\ \A k \in 1..Len(vals) : \A i \in 1..Len(w) :
                  (\A j \in 1..Len(vals) : vecs.vcols[j] # i)
                     => ComplexLeq(w[i], w[vecs.vcols[k]])

(* C8: fit_transform hands the tuple of its data sets to fit as one
   argument; fit raises AttributeError (a tuple has no shape) before it
   assigns anything, and the object, data_num included, is as before. *)
C8_FitTransformRaises ==
    [][IsCall("fit_transform")
         => /\ last'.result = "AttributeError"
            /\ model' = model]_vars

C8_Witness ==
    /\ last.op = "fit_transform"
    /\ last.n = 2
    /\ last.result = "AttributeError"
    /\ model.data_num # 1
    /\ calls = 1

\* C8 as claimed: the call completes without error with data_num set to 1.
C8_AsClaimed ==
    last.op = "fit_transform" => last.result = "ok" /\ model.data_num = 1

(* C9: cov_mat is a grid of data_num rows of data_num blocks, and block
   (i, i) is a square array whose side is the feature count of data set
   i. *)
C9_CovMatIsSquareGrid ==
    /\ Len(model.cov_mat) = model.data_num
    /\ \A i \in 1..Len(model.cov_mat) :
          /\ Len(model.cov_mat[i]) = model.data_num
          /\ model.cov_mat[i][i].kind = "ndarray"
          /\ "src" \in DOMAIN model.cov_mat[i][i]
          /\ model.cov_mat[i][i].rows = model.cov_mat[i][i].src[i].cols
          /\ model.cov_mat[i][i].cols = model.cov_mat[i][i].src[i].cols

(* C10: z_list is empty, or holds data_num projected data sets, the i-th
   made with the i-th projection matrix the object holds now. *)
C10_ZListMatchesFit ==
    \/ model.z_list = <<>>
    \/ /\ Len(model.z_list) = model.data_num
       /\ Len(model.h_list) = model.data_num
       /\ \A i \in 1..Len(model.z_list) :
             /\ model.z_list[i].kind = "ndarray"
             /\ model.z_list[i].h = model.h_list[i]

====
